---- MODULE Spec2Model ----
(***************************************************************************)
(* ECG display and heart-rate monitor (ecg-sensor-screen-display.cpp).     *)
(*                                                                         *)
(* Number representation.  The program computes in float; the model uses   *)
(* fixed point: voltages are integers in millivolts, the heart rate is an  *)
(* integer in milli-BPM, and a result that float would round is rounded to *)
(* the fixed-point resolution (\div, which rounds down).  uint32_t values  *)
(* (the millisecond clock, the peak counter) are kept at their 32-bit      *)
(* width as two 16-bit limbs, because TLC's own integers are 32-bit        *)
(* signed.  The clock advances where the code waits (one sample period per *)
(* DMA transfer, sleep_ms); computation takes no time at ms resolution.    *)
(*                                                                         *)
(* The shipped build has CAPTURE_DEPTH = 2500 and DISPLAY_WIDTH = 240.     *)
(* The pipeline is explored on smaller builds, cfg = [depth, width]; the   *)
(* builds the main loop runs on keep the shipped build's divisibility      *)
(* (SameShape).                                                            *)
(***************************************************************************)
EXTENDS Integers, Sequences, FiniteSets, TLC

VARIABLES
    cfg,             \* [depth, width]: CAPTURE_DEPTH and DISPLAY_WIDTH of the build
    pc,              \* position of the main thread
    now,             \* to_ms_since_boot(get_absolute_time()), uint32
    capture_buf,     \* uint16_t capture_buf[CAPTURE_DEPTH]
    dma_count,       \* remaining transfer count of the DMA channel
    adc_running,     \* adc_run(true/false)
    filter,          \* static BandpassFilter filter: x1, x2, y1, y2
    filtered_buf,    \* static float filtered_buf[CAPTURE_DEPTH]
    display_samples, \* static float display_samples[DISPLAY_WIDTH]
    idx,             \* loop index i of the loop the main thread is in
    hr,              \* last_peak_time, r_peak_count (statics), heart_rate (global)
    captures,        \* history: captures started
    processed,       \* history: display_ecg_data calls that returned
    written,         \* history: DMA writes since the capture was started
    block_start,     \* history: clock value when the capture was started
    cycle_base,      \* history: Len(calls) when the capture was started
    calls,           \* history: the calls of calculate_heart_rate
    fcalls,          \* history: the calls of BandpassFilter::process
    zero_run         \* history: only process(0) since construction or reset()

vars == <<cfg, pc, now, capture_buf, dma_count, adc_running, filter,
          filtered_buf, display_samples, idx, hr, captures, processed,
          written, block_start, cycle_base, calls, fcalls, zero_run>>

----------------------------------------------------------------------------
(* Bounds of the exploration *)

MaxDepth == 4
MaxWidth == 2
MaxCycles == 2
MaxCalls == 5
MaxFilterCalls == 4

(* Program constants *)

CAPTURE_DEPTH == 2500
DISPLAY_WIDTH == 240
R_PEAK_THRESHOLD == 2300
MIN_RR_INTERVAL_MS == 200
SAMPLE_RATE == 1000
ADC_VREF == 3300
ADC_BITS == 12
SLEEP_MS == 100
MIN_VAL_INIT == 99999000
MAX_VAL_INIT == -99999000
b0 == 675
b1 == 0
b2 == -675
a1 == -18650
a2 == 8651

CoefScale == 10 * 1000       \* the coefficients above are in 1/10000
BlendOld == 7                \* 0.7f, in tenths
BlendNew == 3                \* 0.3f, in tenths

Abs(x) == IF x < 0 THEN -x ELSE x

----------------------------------------------------------------------------
(* uint32_t arithmetic, modulo 2^32, on two 16-bit limbs *)

Limb == 2^16

U32(n) == [hi |-> n \div Limb, lo |-> n % Limb]

U32Add(a, b) ==
    LET lo == a.lo + b.lo
    IN  [hi |-> (a.hi + b.hi + lo \div Limb) % Limb, lo |-> lo % Limb]

U32Sub(a, b) ==
    LET borrow == IF a.lo < b.lo THEN 1 ELSE 0
    IN  [hi |-> (a.hi - b.hi - borrow + 2 * Limb) % Limb,
         lo |-> (a.lo - b.lo + Limb) % Limb]

\* a > n for a uint32 a and a small constant n
U32Gt(a, n) == a.hi > n \div Limb \/ (a.hi = n \div Limb /\ a.lo > n % Limb)

----------------------------------------------------------------------------
(* calculate_heart_rate *)

\* if (voltage > R_PEAK_THRESHOLD && (current_time - last_peak_time) > MIN_RR_INTERVAL_MS)
IsRPeak_AtLeast(voltage, current_time, last_peak_time) ==
    /\ voltage > R_PEAK_THRESHOLD
    /\ U32Gt(U32Sub(current_time, last_peak_time), MIN_RR_INTERVAL_MS - 1)

IsRPeak_NoRefractory(voltage, current_time, last_peak_time) ==
    voltage > R_PEAK_THRESHOLD

IsRPeak(voltage, current_time, last_peak_time) ==
    /\ voltage > R_PEAK_THRESHOLD
    /\ U32Gt(U32Sub(current_time, last_peak_time), MIN_RR_INTERVAL_MS)

\* if (last_peak_time > 0)
HasPrevPeak(last_peak_time) == U32Gt(last_peak_time, 0)

\* 60.0f / ((current_time - last_peak_time) / 1000.0f), in milli-BPM.  A zero
\* interval divides by zero, which is +inf in float; an interval of 2^26 ms or
\* more gives less than one milli-BPM.
FltInf == 10^8

InstantHr(rr_ms) ==
    IF rr_ms = U32(0) THEN FltInf
    ELSE IF rr_ms.hi >= 2^10 THEN 0
    ELSE (60 * 1000 * 1000) \div (rr_ms.hi * Limb + rr_ms.lo)

\* heart_rate = heart_rate * 0.7f + instant_hr * 0.3f
Blend_Swapped(heart_rate, instant_hr) ==
    (heart_rate * BlendNew + instant_hr * BlendOld) \div 10

Blend(heart_rate, instant_hr) ==
    (heart_rate * BlendOld + instant_hr * BlendNew) \div 10

calculate_heart_rate(st, voltage, current_time) ==
    IF IsRPeak(voltage, current_time, st.last_peak_time)
    THEN [last_peak_time |-> current_time,
          r_peak_count   |-> U32Add(st.r_peak_count, U32(1)),
          heart_rate     |->
              IF HasPrevPeak(st.last_peak_time)
              THEN Blend(st.heart_rate,
                         InstantHr(U32Sub(current_time, st.last_peak_time)))
              ELSE st.heart_rate]
    ELSE st

\* One call, with the record the history keeps of it: the arguments, the state
\* before and after, and the interval the call divided by, if it divided.
HeartCall(voltage, current_time) ==
    LET peak    == IsRPeak(voltage, current_time, hr.last_peak_time)
        divided == peak /\ HasPrevPeak(hr.last_peak_time)
        post    == calculate_heart_rate(hr, voltage, current_time)
    IN  /\ hr' = post
        /\ calls' = Append(calls,
               [v |-> voltage, t |-> current_time, pre |-> hr, post |-> post,
                divided |-> divided,
                rr |-> U32Sub(current_time, hr.last_peak_time)])

HrInit == [last_peak_time |-> U32(0), r_peak_count |-> U32(0), heart_rate |-> 0]

----------------------------------------------------------------------------
(* BandpassFilter *)

FilterZero == [x1 |-> 0, x2 |-> 0, y1 |-> 0, y2 |-> 0]

\* float output = b0 * input + b1 * x1 + b2 * x2 - a1 * y1 - a2 * y2;
FilterOutput(f, input) ==
    (b0 * input + b1 * f.x1 + b2 * f.x2 - a1 * f.y1 - a2 * f.y2) \div CoefScale

\* x2 = x1; x1 = input; y2 = y1; y1 = output;
ProcessState_NoShift(f, input) ==
    [x1 |-> input, x2 |-> f.x2, y1 |-> FilterOutput(f, input), y2 |-> f.y2]

ProcessState(f, input) ==
    [x1 |-> input, x2 |-> f.x1, y1 |-> FilterOutput(f, input), y2 |-> f.y1]

\* return output;
ProcessReturn(f, input) == FilterOutput(f, input)

\* capture_buf[i] * ADC_CONVERSION_FACTOR, in millivolts
AdcToVoltage(raw) == (raw * ADC_VREF) \div (2^ADC_BITS)

----------------------------------------------------------------------------
(* The downsampling loop of display_ecg_data *)

DOWNSAMPLE_FACTOR(c) == c.depth \div c.width

\* int start_idx = i * DOWNSAMPLE_FACTOR;   (i counts from 0)
start_idx_Shifted(i, c) == i * DOWNSAMPLE_FACTOR(c) + 1

start_idx(i, c) == i * DOWNSAMPLE_FACTOR(c)

end_idx(i, c) == start_idx(i, c) + DOWNSAMPLE_FACTOR(c)

\* for (j = start_idx; j < end_idx && j < CAPTURE_DEPTH; j++): min_val, max_val
RECURSIVE ScanWindow(_, _, _, _, _)
ScanWindow(buf, j, last, depth, acc) ==
    IF j < last /\ j < depth
    THEN ScanWindow(buf, j + 1, last, depth,
             [min_val |-> IF acc.min_val > buf[j + 1] THEN buf[j + 1] ELSE acc.min_val,
              max_val |-> IF acc.max_val < buf[j + 1] THEN buf[j + 1] ELSE acc.max_val])
    ELSE acc

\* (dist_to_max > dist_to_min) ? max_val : min_val
PicksMax_OnTie(dist_to_max, dist_to_min) == dist_to_max >= dist_to_min

PicksMax(dist_to_max, dist_to_min) == dist_to_max > dist_to_min

Representative(acc) ==
    LET mean        == (acc.min_val + acc.max_val) \div 2
        dist_to_min == Abs(mean - acc.min_val)
        dist_to_max == Abs(mean - acc.max_val)
    IN  IF PicksMax(dist_to_max, dist_to_min) THEN acc.max_val ELSE acc.min_val

Downsample(buf, c) ==
    [i \in 1..c.width |->
        Representative(ScanWindow(buf, start_idx(i - 1, c), end_idx(i - 1, c), c.depth,
                                  [min_val |-> MIN_VAL_INIT, max_val |-> MAX_VAL_INIT]))]

----------------------------------------------------------------------------
(* Builds and inputs *)

Configs == {c \in [depth : 1..MaxDepth, width : 1..MaxWidth] : c.width <= c.depth}

Divides(c) == c.depth % c.width = 0

\* A small build stands for the shipped one when it divides as the shipped one does.
SameShape(c) == Divides(c) <=> (CAPTURE_DEPTH % DISPLAY_WIDTH = 0)

RawSamples == {0, 2^ADC_BITS - 1}

Zeros(n) == [k \in 1..n |-> 0]

Processing == {"filter", "downsample", "draw", "show"}

----------------------------------------------------------------------------
(* The main loop: capture_and_display, display_ecg_data, sleep_ms *)

Init ==
    /\ cfg \in {c \in Configs : SameShape(c)}
    /\ pc = "start"
    /\ now = U32(0)
    /\ capture_buf = Zeros(cfg.depth)
    /\ dma_count = 0
    /\ adc_running = FALSE
    /\ filter = FilterZero
    /\ filtered_buf = Zeros(cfg.depth)
    /\ display_samples = Zeros(cfg.width)
    /\ idx = 0
    /\ hr = HrInit
    /\ captures = 0
    /\ processed = 0
    /\ written = 0
    /\ block_start = U32(0)
    /\ cycle_base = 0
    /\ calls = << >>
    /\ fcalls = << >>
    /\ zero_run = TRUE

\* adc_fifo_drain(); adc_run(false); dma_channel_configure(..., CAPTURE_DEPTH, true);
\* adc_run(true);
StartCapture ==
    /\ pc = "start"
    /\ captures < MaxCycles
    /\ dma_count' = cfg.depth
    /\ adc_running' = TRUE
    /\ captures' = captures + 1
    /\ written' = 0
    /\ block_start' = now
    /\ cycle_base' = Len(calls)
    /\ pc' = "wait"
    /\ UNCHANGED <<cfg, now, capture_buf, filter, filtered_buf, display_samples,
                   idx, hr, processed, calls, fcalls, zero_run>>

\* The hardware: one ADC conversion every 1000 / SAMPLE_RATE ms, moved by the DMA
\* channel to the next element of capture_buf while its transfer count lasts.
DmaTransfer ==
    /\ adc_running
    /\ dma_count > 0
    /\ \E raw \in RawSamples :
           capture_buf' = [capture_buf EXCEPT ![cfg.depth - dma_count + 1] = raw]
    /\ dma_count' = dma_count - 1
    /\ written' = written + 1
    /\ now' = U32Add(now, U32(1000 \div SAMPLE_RATE))
    /\ UNCHANGED <<cfg, pc, adc_running, filter, filtered_buf, display_samples,
                   idx, hr, captures, processed, block_start, cycle_base, calls,
                   fcalls, zero_run>>

\* dma_channel_wait_for_finish_blocking(dma_chan) returns
DmaFinished_NoWait(count) == TRUE

DmaFinished(count) == count = 0

WaitFinish ==
    /\ pc = "wait"
    /\ DmaFinished(dma_count)
    /\ pc' = "stop"
    /\ UNCHANGED <<cfg, now, capture_buf, dma_count, adc_running, filter,
                   filtered_buf, display_samples, idx, hr, captures, processed,
                   written, block_start, cycle_base, calls, fcalls, zero_run>>

\* adc_run(false); adc_fifo_drain(); display_ecg_data() is entered
StopAdc ==
    /\ pc = "stop"
    /\ adc_running' = FALSE
    /\ idx' = 0
    /\ pc' = "filter"
    /\ UNCHANGED <<cfg, now, capture_buf, dma_count, filter, filtered_buf,
                   display_samples, hr, captures, processed, written,
                   block_start, cycle_base, calls, fcalls, zero_run>>

\* filtered_buf[i] = filter.process(capture_buf[i] * ADC_CONVERSION_FACTOR)
FilterStep ==
    /\ pc = "filter"
    /\ idx < cfg.depth
    /\ LET voltage == AdcToVoltage(capture_buf[idx + 1])
       IN  /\ filter' = ProcessState(filter, voltage)
           /\ filtered_buf' =
                  [filtered_buf EXCEPT ![idx + 1] = ProcessReturn(filter, voltage)]
    /\ idx' = idx + 1
    /\ pc' = IF idx + 1 < cfg.depth THEN "filter" ELSE "downsample"
    /\ UNCHANGED <<cfg, now, capture_buf, dma_count, adc_running,
                   display_samples, hr, captures, processed, written,
                   block_start, cycle_base, calls, fcalls, zero_run>>

\* the downsampling loop, then the grid; the drawing loop starts at i = 1
DownsampleStep ==
    /\ pc = "downsample"
    /\ display_samples' = Downsample(filtered_buf, cfg)
    /\ idx' = 1
    /\ pc' = IF 1 < cfg.width THEN "draw" ELSE "show"
    /\ UNCHANGED <<cfg, now, capture_buf, dma_count, adc_running, filter,
                   filtered_buf, hr, captures, processed, written, block_start,
                   cycle_base, calls, fcalls, zero_run>>

\* Paint_DrawLine(...); calculate_heart_rate(display_samples[i]);
DrawStep ==
    /\ pc = "draw"
    /\ idx < cfg.width
    /\ HeartCall(display_samples[idx + 1], now)
    /\ idx' = idx + 1
    /\ pc' = IF idx + 1 < cfg.width THEN "draw" ELSE "show"
    /\ UNCHANGED <<cfg, now, capture_buf, dma_count, adc_running, filter,
                   filtered_buf, display_samples, captures, processed, written,
                   block_start, cycle_base, fcalls, zero_run>>

\* the heart-rate string, LCD_1IN14_Display(display_buf); display_ecg_data returns
Show ==
    /\ pc = "show"
    /\ processed' = processed + 1
    /\ pc' = "sleep"
    /\ UNCHANGED <<cfg, now, capture_buf, dma_count, adc_running, filter,
                   filtered_buf, display_samples, idx, hr, captures, written,
                   block_start, cycle_base, calls, fcalls, zero_run>>

\* sleep_ms(100); the next iteration of while (1)
Sleep ==
    /\ pc = "sleep"
    /\ now' = U32Add(now, U32(SLEEP_MS))
    /\ pc' = "start"
    /\ UNCHANGED <<cfg, capture_buf, dma_count, adc_running, filter,
                   filtered_buf, display_samples, idx, hr, captures, processed,
                   written, block_start, cycle_base, calls, fcalls, zero_run>>

Next ==
    \/ StartCapture
    \/ DmaTransfer
    \/ WaitFinish
    \/ StopAdc
    \/ FilterStep
    \/ DownsampleStep
    \/ DrawStep
    \/ Show
    \/ Sleep

Spec == Init /\ [][Next]_vars

----------------------------------------------------------------------------
(* calculate_heart_rate on its own: any voltage, any clock value *)

\* 2^32 - 201 ms: the step that takes the clock from 201 past its wrap to 0
WrapStep == [hi |-> Limb - 1, lo |-> Limb - 1 - MIN_RR_INTERVAL_MS]

ClockSteps == {U32(0), U32(MIN_RR_INTERVAL_MS), U32(MIN_RR_INTERVAL_MS + 1), WrapStep}

Voltages == {R_PEAK_THRESHOLD, R_PEAK_THRESHOLD + 1}

IdleInit ==
    /\ cfg = [depth |-> 1, width |-> 1]
    /\ now = U32(0)
    /\ capture_buf = Zeros(1)
    /\ dma_count = 0
    /\ adc_running = FALSE
    /\ filter = FilterZero
    /\ filtered_buf = Zeros(1)
    /\ display_samples = Zeros(1)
    /\ idx = 0
    /\ hr = HrInit
    /\ captures = 0
    /\ processed = 0
    /\ written = 0
    /\ block_start = U32(0)
    /\ cycle_base = 0
    /\ calls = << >>
    /\ fcalls = << >>
    /\ zero_run = TRUE

HrInitState == IdleInit /\ pc = "heart"

HrCall ==
    /\ pc = "heart"
    /\ Len(calls) < MaxCalls
    /\ \E v \in Voltages, d \in ClockSteps :
           /\ now' = U32Add(now, d)
           /\ HeartCall(v, now')
    /\ UNCHANGED <<cfg, pc, capture_buf, dma_count, adc_running, filter,
                   filtered_buf, display_samples, idx, captures, processed,
                   written, block_start, cycle_base, fcalls, zero_run>>

SpecHR == HrInitState /\ [][HrCall]_vars

----------------------------------------------------------------------------
(* BandpassFilter on its own: process(input) and reset() *)

FilterInputs == {0, 1000, ADC_VREF}

FilterInitState == IdleInit /\ pc = "bandpass"

FProcess ==
    /\ pc = "bandpass"
    /\ Len(fcalls) < MaxFilterCalls
    /\ \E input \in FilterInputs :
           /\ filter' = ProcessState(filter, input)
           /\ fcalls' = Append(fcalls,
                  [pre |-> filter, input |-> input,
                   post |-> ProcessState(filter, input),
                   out |-> ProcessReturn(filter, input),
                   zero_run |-> zero_run /\ input = 0])
           /\ zero_run' = (zero_run /\ input = 0)
    /\ UNCHANGED <<cfg, pc, now, capture_buf, dma_count, adc_running,
                   filtered_buf, display_samples, idx, hr, captures, processed,
                   written, block_start, cycle_base, calls>>

\* x1 = x2 = y1 = y2 = 0.0f
FReset ==
    /\ pc = "bandpass"
    /\ filter' = FilterZero
    /\ zero_run' = TRUE
    /\ UNCHANGED <<cfg, pc, now, capture_buf, dma_count, adc_running,
                   filtered_buf, display_samples, idx, hr, captures, processed,
                   written, block_start, cycle_base, calls, fcalls>>

FilterNext == FProcess \/ FReset

SpecFilter == FilterInitState /\ [][FilterNext]_vars

----------------------------------------------------------------------------
(* The downsampling loop on its own: any filtered block, any build *)

FilteredValues == {-1000, 0, 1}

DownInitState ==
    /\ cfg \in Configs
    /\ pc = "downsample_only"
    /\ now = U32(0)
    /\ capture_buf = Zeros(cfg.depth)
    /\ dma_count = 0
    /\ adc_running = FALSE
    /\ filter = FilterZero
    /\ filtered_buf \in [1..cfg.depth -> FilteredValues]
    /\ display_samples = Zeros(cfg.width)
    /\ idx = 0
    /\ hr = HrInit
    /\ captures = 0
    /\ processed = 0
    /\ written = 0
    /\ block_start = U32(0)
    /\ cycle_base = 0
    /\ calls = << >>
    /\ fcalls = << >>
    /\ zero_run = TRUE

DownsampleOnly ==
    /\ pc = "downsample_only"
    /\ display_samples' = Downsample(filtered_buf, cfg)
    /\ pc' = "downsampled"
    /\ UNCHANGED <<cfg, now, capture_buf, dma_count, adc_running, filter,
                   filtered_buf, idx, hr, captures, processed, written,
                   block_start, cycle_base, calls, fcalls, zero_run>>

SpecDown == DownInitState /\ [][DownsampleOnly]_vars

----------------------------------------------------------------------------
(* Properties *)

Reporting(c) == c.post.r_peak_count /= c.pre.r_peak_count

Updating(c) == c.divided

\* the reporting calls among the first n calls, in order
ReportedBefore(n) == SelectSeq(SubSeq(calls, 1, n), Reporting)

\* C1: any two consecutively reported peaks are more than MIN_RR_INTERVAL_MS
\* apart (the difference taken as the clock takes it, which for non-decreasing
\* timestamps is the plain difference), and a sample above the threshold that
\* comes MIN_RR_INTERVAL_MS or less after the last reported peak is not
\* reported and changes no state.
C1_NoDoubleReport ==
    LET rep == ReportedBefore(Len(calls))
    IN  /\ \A i \in 1..(Len(rep) - 1) :
               U32Gt(U32Sub(rep[i + 1].t, rep[i].t), MIN_RR_INTERVAL_MS)
        /\ \A k \in 1..Len(calls) :
               LET earlier == ReportedBefore(k - 1)
               IN  ( /\ Len(earlier) > 0
                     /\ calls[k].v > R_PEAK_THRESHOLD
                     /\ ~ U32Gt(U32Sub(calls[k].t, earlier[Len(earlier)].t),
                                MIN_RR_INTERVAL_MS) )
                   => calls[k].post = calls[k].pre

\* C1 witness: two peaks reported 201 ms apart, then a sample above the
\* threshold exactly 200 ms after the second one, which is suppressed.
C1_Witness ==
    LET rep == ReportedBefore(Len(calls))
    IN  /\ Len(rep) >= 2
        /\ U32Sub(rep[2].t, rep[1].t) = U32(MIN_RR_INTERVAL_MS + 1)
        /\ \E k \in 1..Len(calls) :
               /\ Len(ReportedBefore(k - 1)) = 2
               /\ calls[k].v > R_PEAK_THRESHOLD
               /\ U32Sub(calls[k].t, rep[2].t) = U32(MIN_RR_INTERVAL_MS)
               /\ calls[k].post = calls[k].pre

\* C2: when display_ecg_data has done its work on a block, the calls of
\* calculate_heart_rate made for that block are one per filtered sample, in
\* index order, each with the filtered value and the timestamp
\* block_start + index * sample period.
C2_FullResolutionDetection ==
    pc \in {"show", "sleep"} =>
        LET fed == SubSeq(calls, cycle_base + 1, Len(calls))
        IN  /\ Len(fed) = cfg.depth
            /\ \A k \in 1..cfg.depth :
                   /\ fed[k].v = filtered_buf[k]
                   /\ fed[k].t = U32Add(block_start,
                                        U32((k - 1) * (1000 \div SAMPLE_RATE)))

\* C3: whenever display_ecg_data executes, the capture depth is a multiple of
\* the display width, and the windows cover every filtered sample exactly once.
C3_WindowsPartition ==
    pc \in Processing =>
        /\ Divides(cfg)
        /\ \A j \in 0..(cfg.depth - 1) :
               Cardinality({i \in 0..(cfg.width - 1) :
                              start_idx(i, cfg) <= j /\ j < end_idx(i, cfg)}) = 1

\* the values of window i (counted from 0) of the filtered block
WindowOf(buf, i, c) ==
    {buf[j + 1] : j \in (i * (c.depth \div c.width))..((i + 1) * (c.depth \div c.width) - 1)}

SetMin(S) == CHOOSE x \in S : \A y \in S : x <= y

SetMax(S) == CHOOSE x \in S : \A y \in S : x >= y

\* the window's min or max, whichever is farther from mean = (min + max) / 2,
\* and on equal distances the one named
Farther(S, on_tie) ==
    LET mn   == SetMin(S)
        mx   == SetMax(S)
        mean == (mn + mx) \div 2
        dmin == Abs(mean - mn)
        dmax == Abs(mean - mx)
    IN  IF dmax > dmin THEN mx
        ELSE IF dmin > dmax THEN mn
        ELSE IF on_tie = "max" THEN mx ELSE mn

IsTie(S) ==
    LET mean == (SetMin(S) + SetMax(S)) \div 2
    IN  Abs(mean - SetMin(S)) = Abs(mean - SetMax(S))

\* C4 as stated: every output is the farther of its window's min and max, and
\* the window's max when the two distances are equal.
C4_TieTowardMax ==
    pc = "downsampled" =>
        \A i \in 0..(cfg.width - 1) :
            display_samples[i + 1] = Farther(WindowOf(filtered_buf, i, cfg), "max")

\* C4 as amended: every output is the farther of its window's min and max, and
\* the window's min when the two distances are equal.
C4_TieTowardMin ==
    pc = "downsampled" =>
        \A i \in 0..(cfg.width - 1) :
            display_samples[i + 1] = Farther(WindowOf(filtered_buf, i, cfg), "min")

\* C4 witness: a window whose min and max differ and are equally far from the
\* mean, and whose output is the min.
C4_Witness ==
    /\ pc = "downsampled"
    /\ \E i \in 0..(cfg.width - 1) :
           LET S == WindowOf(filtered_buf, i, cfg)
           IN  /\ SetMin(S) /= SetMax(S)
               /\ IsTie(S)
               /\ display_samples[i + 1] = SetMin(S)

\* C5: for a block whose length is a multiple of the width, there are exactly
\* width outputs, output i is the min or the max of window i, and it is the
\* same for every block that agrees with this one on window i.
C5_DownsampleShape ==
    (pc = "downsampled" /\ Divides(cfg)) =>
        /\ Len(display_samples) = cfg.width
        /\ \A i \in 0..(cfg.width - 1) :
               LET S == WindowOf(filtered_buf, i, cfg)
                   F == cfg.depth \div cfg.width
               IN  /\ display_samples[i + 1] \in {SetMin(S), SetMax(S)}
                   /\ \A g \in [1..cfg.depth -> FilteredValues] :
                          (\A j \in (i * F + 1)..((i + 1) * F) : g[j] = filtered_buf[j])
                          => Downsample(g, cfg)[i + 1] = display_samples[i + 1]

\* C5 witness: a block of four samples downsampled to two outputs that differ,
\* each window holding two different values.
C5_Witness ==
    /\ pc = "downsampled"
    /\ cfg = [depth |-> 4, width |-> 2]
    /\ filtered_buf[1] /= filtered_buf[2]
    /\ filtered_buf[3] /= filtered_buf[4]
    /\ display_samples[1] /= display_samples[2]

\* the updating calls (those that computed instant_hr), in order
Updates == SelectSeq(calls, Updating)

Shrink(d) == (BlendOld * d) \div 10 + 1

RECURSIVE ShrinkN(_, _)
ShrinkN(d, n) == IF n = 0 THEN d ELSE ShrinkN(Shrink(d), n - 1)

\* C6: every update moves heart_rate to within one rounding unit of
\* 0.7 * heart_rate + 0.3 * (60 / T): its distance from 60 / T becomes 0.7 times
\* what it was, and over n updates in a row with the same interval T it is at
\* most the n-fold 0.7-contraction of what it was before them.
C6_BlendContracts ==
    LET upd == Updates
        target(k) == InstantHr(upd[k].rr)
    IN  /\ \A k \in 1..Len(upd) :
               LET d0 == Abs(upd[k].pre.heart_rate - target(k))
                   d1 == Abs(upd[k].post.heart_rate - target(k))
               IN  /\ 10 * d1 <= BlendOld * d0 + 10
                   /\ 10 * d1 >= BlendOld * d0 - 10
        /\ \A i \in 1..Len(upd) : \A j \in i..Len(upd) :
               (\A k \in i..j : upd[k].rr = upd[i].rr)
               => Abs(upd[j].post.heart_rate - target(i))
                      <= ShrinkN(Abs(upd[i].pre.heart_rate - target(i)), j - i + 1)

\* C6 witness: three updates in a row with the same interval, the heart rate
\* rising toward 60 / T at each.
C6_Witness ==
    LET upd == Updates
    IN  /\ Len(upd) >= 3
        /\ upd[2].rr = upd[1].rr
        /\ upd[3].rr = upd[1].rr
        /\ upd[1].pre.heart_rate < upd[1].post.heart_rate
        /\ upd[2].pre.heart_rate < upd[2].post.heart_rate
        /\ upd[3].pre.heart_rate < upd[3].post.heart_rate
        /\ upd[3].post.heart_rate < InstantHr(upd[1].rr)

\* C7: while only process(0) has been called since construction or reset(),
\* every call returns 0 and the four history values stay 0; and every call
\* process(x) shifts the history: x2 <- x1, x1 <- x, y2 <- y1, y1 <- output.
C7_ZeroFixedPointAndShift ==
    /\ zero_run => filter = FilterZero
    /\ \A k \in 1..Len(fcalls) :
           LET c == fcalls[k]
           IN  /\ c.zero_run => (c.out = 0 /\ c.post = FilterZero)
               /\ c.post.x2 = c.pre.x1
               /\ c.post.x1 = c.input
               /\ c.post.y2 = c.pre.y1
               /\ c.post.y1 = c.out

\* C7 witness: two process(0) calls from the reset state, and a later call made
\* with a history whose values all differ from zero and from each other.
C7_Witness ==
    /\ Len(fcalls) >= 3
    /\ fcalls[1].zero_run
    /\ fcalls[2].zero_run
    /\ \E k \in 1..Len(fcalls) :
           /\ fcalls[k].pre.x1 /= 0
           /\ fcalls[k].pre.x2 /= fcalls[k].pre.x1
           /\ fcalls[k].pre.y1 /= 0
           /\ fcalls[k].pre.y2 /= fcalls[k].pre.y1
           /\ fcalls[k].input /= 0

\* C8: the test last_peak_time > 0 holds exactly when a peak has been reported;
\* the first reported peak records its timestamp and leaves heart_rate alone,
\* and every later reported peak updates heart_rate.
C8_FirstEventTest ==
    /\ HasPrevPeak(hr.last_peak_time) <=> (Len(ReportedBefore(Len(calls))) > 0)
    /\ \A k \in 1..Len(calls) :
           Reporting(calls[k]) =>
               IF Len(ReportedBefore(k - 1)) = 0
               THEN /\ calls[k].post.last_peak_time = calls[k].t
                    /\ calls[k].post.heart_rate = calls[k].pre.heart_rate
                    /\ ~ Updating(calls[k])
               ELSE Updating(calls[k])

\* C9: whenever instant_hr = 60 / rr_interval is computed, the interval is more
\* than MIN_RR_INTERVAL_MS (so never zero), and a sample whose timestamp equals
\* the last peak timestamp leaves last_peak_time, heart_rate and the peak
\* counter unchanged.
C9_NoZeroInterval ==
    \A k \in 1..Len(calls) :
        /\ Updating(calls[k]) => U32Gt(calls[k].rr, MIN_RR_INTERVAL_MS)
        /\ calls[k].t = calls[k].pre.last_peak_time => calls[k].post = calls[k].pre

\* C9 witness: an update has divided by an interval, and a sample above the
\* threshold has come with the timestamp of the last reported peak.
C9_Witness ==
    /\ \E k \in 1..Len(calls) : Updating(calls[k])
    /\ \E k \in 1..Len(calls) :
           /\ calls[k].v > R_PEAK_THRESHOLD
           /\ HasPrevPeak(calls[k].pre.last_peak_time)
           /\ calls[k].t = calls[k].pre.last_peak_time

\* C10: while display_ecg_data runs, the DMA transfer of this capture has
\* written all of the block's samples and writes no more, and the ADC is
\* stopped; a capture is started only when the processing of every earlier
\* block has returned.
C10_ExclusiveBlock ==
    /\ pc \in Processing =>
           (dma_count = 0 /\ ~ adc_running /\ written = cfg.depth)
    /\ captures \in {processed, processed + 1}
    /\ pc \in (Processing \cup {"wait", "stop"}) => captures = processed + 1
    /\ pc \in {"start", "sleep"} => captures = processed

\* C10 witness: the second block is being filtered.
C10_Witness ==
    /\ pc = "filter"
    /\ captures = 2
    /\ idx = 1
    /\ written = cfg.depth

====
